---- MODULE Spec2Model ----
(***************************************************************************)
(* The pills prediction market of pillymarket: the pricing and order       *)
(* engine (src/src/lib/pills-market-engine.ts), the trading hooks that     *)
(* call it (src/src/hooks/use-pills-market.ts), the period clock, and the  *)
(* storage of the tracked wallets' trades (src/src/lib/helius-api.ts,      *)
(* src/src/lib/database.ts).                                               *)
(*                                                                         *)
(* Numbers.  The program computes in IEEE doubles; the model computes in   *)
(* fixed point.  Prices and rounded probabilities are integers counting    *)
(* 1/PRICE_SCALE (the program rounds both to four decimals).  Pills and    *)
(* shares are integers counting 1/UNIT, and a quotient that is not a whole *)
(* number of those is cut to the one below.  pow and exp are evaluated     *)
(* with integer arithmetic, to about 1e-4 and 1e-6.                        *)
(***************************************************************************)
EXTENDS Integers, Sequences, FiniteSets, TLC

VARIABLES
    kolShares,      \* the period's KOLShare records, by kolAddress
    positions,      \* the UserPosition records, by <<user, kol>>
    fills,          \* how many orders have been filled and applied
    lastResult,     \* what the last engine call returned or threw
    resolutions,    \* the MarketResolution records returned so far
    userAddress,    \* useSolana().account?.address of the trading hook
    marketSummary,  \* useMarketData's marketSummary state
    pillsBalance,   \* useUserPortfolio's pillsBalance state
    calls,          \* buyShares / sellShares calls waiting on the network
    callsStarted,   \* how many buyShares / sellShares calls were made
    hookResult,     \* what the last buyShares / sellShares call returned
    filledOrders,   \* the orders the hook has marked filled
    now,            \* wall clock, hours since the epoch
    tzOffset,       \* host time zone, hours east of UTC
    currentPeriod,  \* useMarketData's memoized MarketPeriod
    database,       \* the committed rows of the PostgreSQL tables
    deliveries,     \* the webhook transactions handled so far
    connection      \* the transaction() call in progress and the ones before

vars == <<kolShares, positions, fills, lastResult, resolutions,
          userAddress, marketSummary, pillsBalance, calls, callsStarted,
          hookResult, filledOrders, now, tzOffset, currentPeriod,
          database, deliveries, connection>>

engineVars == <<kolShares, positions, fills, lastResult, resolutions>>
hookVars == <<userAddress, marketSummary, pillsBalance, calls, callsStarted,
              hookResult, filledOrders>>
clockVars == <<now, tzOffset, currentPeriod>>
dbVars == <<database, deliveries, connection>>

----------------------------------------------------------------------------
(* Program constants *)

PRICE_SCALE == 10000    \* Math.round(x * 10000) / 10000
UNIT == 100             \* pills and shares count hundredths (MIN_SHARES 0.01)
MIN_BET == 1            \* TRADING_CONFIG.MIN_BET, in pills
DEMO_BALANCE == 1000    \* demoBalance, in pills
HOURS_PER_DAY == 24     \* 24 * 60 * 60 * 1000 ms
TRACKED_COUNT == 21     \* "the 21 real KOL wallets" of TRACKED_KOLS

BASE_PRICE == PRICE_SCALE \div 2                  \* basePrice = 0.50
MAX_PRICE == (95 * PRICE_SCALE) \div 100          \* Math.min(0.95, ...)
MIN_PRICE == (5 * PRICE_SCALE) \div 100           \* Math.max(0.05, ...)

(* Bounds of the model *)

MaxFills == 3           \* orders filled on the period
MaxResolutions == 2     \* resolution attempts on the period
MaxLedgerCalls == 4     \* updateUserPosition calls on one position
MaxCalls == 3           \* buyShares / sellShares calls on one hook
MaxDays == 3            \* days of wall clock explored
MaxCandidates == 31     \* candidates of the largest market summarized
MaxLeadBuys == 2        \* further buys of the first candidate of such a market
MaxDeliveries == 4      \* webhook transactions handled
MaxTransactions == 4    \* transaction() calls made

KOLS == {"kolA", "kolB"}
UNKNOWN_KOL == "kolX"           \* an address with no KOLShare record
Users == {"u1", "u2"}
PERIOD_ID == "period_0"

----------------------------------------------------------------------------
(* Integer arithmetic *)

Max(a, b) == IF a >= b THEN a ELSE b
Min(a, b) == IF a <= b THEN a ELSE b
Abs(a) == IF a >= 0 THEN a ELSE -a

\* floor(a * b / c) for b >= 0, c > 0, computed without leaving 32 bits
MulDiv(a, b, c) == (a \div c) * b + ((a % c) * b) \div c

\* floor(sqrt(n)), by bisection on lo <= sqrt(n) < hi
RECURSIVE SqrtBetween(_, _, _)
SqrtBetween(n, lo, hi) ==
    IF hi - lo <= 1 THEN lo
    ELSE LET mid == (lo + hi) \div 2
         IN IF mid * mid <= n THEN SqrtBetween(n, mid, hi)
            ELSE SqrtBetween(n, lo, mid)

ISqrt(n) == SqrtBetween(n, 0, 4 * PRICE_SCALE)

\* Math.pow(x, 1.5) * PRICE_SCALE, rounded, for x = x4 / PRICE_SCALE in [0, 2]:
\* x * sqrt(x), the root taken as floor(sqrt(n)) plus its linear remainder
Pow15(x4) ==
    LET n == x4 * PRICE_SCALE
        s == ISqrt(n)
        rest == IF s = 0 THEN 0 ELSE (x4 * (n - s * s)) \div (2 * s)
    IN (x4 * s + rest + PRICE_SCALE \div 2) \div PRICE_SCALE

\* the scale exp is evaluated in
FP == PRICE_SCALE * PRICE_SCALE

\* floor(a * b / FP) for a, b in 0..FP
MulFP(a, b) ==
    LET ah == a \div PRICE_SCALE
        al == a % PRICE_SCALE
        bh == b \div PRICE_SCALE
        bl == b % PRICE_SCALE
    IN ah * bh + (ah * bl + al * bh + (al * bl) \div PRICE_SCALE) \div PRICE_SCALE

\* term - term*f/(n+1) + term*f^2/((n+1)(n+2)) - ...  : the rest of exp's series
RECURSIVE ExpSeries(_, _, _)
ExpSeries(f, n, term) ==
    IF term = 0 THEN 0
    ELSE term - ExpSeries(f, n + 1, MulFP(term, f) \div (n + 1))

\* Math.exp(-f / FP) * FP for f in 0..FP
ExpNegFrac(f) == ExpSeries(f, 0, FP)

\* Math.exp(-n) * FP for a natural n
RECURSIVE ExpNegInt(_)
ExpNegInt(n) ==
    IF n = 0 THEN FP ELSE MulFP(ExpNegInt(n - 1), ExpNegFrac(FP))

\* Math.exp(-num / den) * FP for num >= 0, den > 0; below 1/FP from 20 on
ExpNeg(num, den) ==
    IF num >= 20 * den THEN 0
    ELSE LET n == num \div den
             r == num % den
             f4 == (r * PRICE_SCALE) \div den
             r2 == (r * PRICE_SCALE) % den
             f == (f4 * 100 + (r2 * 100) \div den) * 100
         IN MulFP(ExpNegInt(n), ExpNegFrac(f))

RECURSIVE Pow10(_)
Pow10(n) == IF n = 0 THEN 1 ELSE 10 * Pow10(n - 1)

\* floor(r * 10^digits / s) for 0 <= r < s, a decimal digit at a time; the
\* digit is floor(10 * r / s), taken as 5 * (2 * r) / s to stay in 32 bits
RECURSIVE DivDigits(_, _, _)
DivDigits(r, s, digits) ==
    IF digits = 0 THEN 0
    ELSE LET twice == 2 * r
             rest == 5 * (twice % s)
         IN (5 * (twice \div s) + rest \div s) * Pow10(digits - 1)
            + DivDigits(rest % s, s, digits - 1)

\* RoundedRatio with Math.floor in the place of Math.round
RoundedRatio_Floored(w, s) == (w \div s) * PRICE_SCALE + DivDigits(w % s, s, 4)

\* Math.round(w / s * PRICE_SCALE) for w >= 0, s > 0: five decimals, then
\* the fifth rounded half up
RoundedRatio(w, s) == ((w \div s) * 100000 + DivDigits(w % s, s, 5) + 5) \div 10

----------------------------------------------------------------------------
(* The market state *)

\* a probability is a fraction <<numerator, denominator>>: 1/N is not a
\* number of ten-thousandths
Fraction(n, d) == <<n, d>>
FracLeq(p, q) == p[1] * q[2] <= q[1] * p[2]

KOLShare(price, shares, invested, probability) ==
    [pricePerShare |-> price, totalShares |-> shares,
     totalInvested |-> invested, probability |-> probability]

\* TRACKED_KOLS.map(kol => ({ ... })) over the tracked addresses `kols`
TrackedShares(kols) ==
    [k \in kols |-> KOLShare(BASE_PRICE, 0, 0, Fraction(1, Cardinality(kols)))]

\* useMarketData.initializeKOLShares
initializeKOLShares == TrackedShares(KOLS)

RECURSIVE SumInvested(_, _)
SumInvested(shares, ks) ==
    IF ks = {} THEN 0
    ELSE LET k == CHOOSE x \in ks : TRUE
         IN shares[k].totalInvested + SumInvested(shares, ks \ {k})

\* kolShares.reduce((sum, share) => sum + share.totalInvested, 0)
TotalInvested(shares) == SumInvested(shares, DOMAIN shares)

\* kolShares.find(share => share.kolAddress === kolAddress) finds one
KOLFound(shares, kolAddress) == kolAddress \in DOMAIN shares

----------------------------------------------------------------------------
(* Pricing engine *)

\* newInvestment / Math.max(newTotalInvested, 1), in 1/PRICE_SCALE; a share of
\* 1 or more stands as 1: the curve is over MAX_PRICE from 0.3 on
MarketShare(newInvestment, newTotalInvested) ==
    LET den == Max(newTotalInvested, UNIT)
    IN IF newInvestment >= den THEN PRICE_SCALE
       ELSE (newInvestment * PRICE_SCALE) \div den

\* ClampPrice without its Math.min(0.95, ...)
ClampPrice_NoCeiling(p) == Max(MIN_PRICE, p)

\* Math.min(0.95, Math.max(0.05, newPrice))
ClampPrice(p) == Min(MAX_PRICE, Max(MIN_PRICE, p))

\* calculateSharePrice without its return of basePrice on an empty market
calculateSharePrice_NoEmptyMarket(shares, kolAddress, shareAmount, isBuy) ==
    LET targetKOL == shares[kolAddress]
        tradeValue == IF isBuy THEN shareAmount ELSE -shareAmount
        newInvestment == Max(0, targetKOL.totalInvested + tradeValue)
        newTotalInvested ==
            TotalInvested(shares) + (IF isBuy THEN tradeValue ELSE 0)
    IN ClampPrice(BASE_PRICE
                  + Pow15(2 * MarketShare(newInvestment, newTotalInvested)))

\* PillsMarketEngine.calculateSharePrice, for a kolAddress the market holds
calculateSharePrice(shares, kolAddress, shareAmount, isBuy) ==
    LET targetKOL == shares[kolAddress]
        totalInvested == TotalInvested(shares)
        tradeValue == IF isBuy THEN shareAmount ELSE -shareAmount
        newInvestment == Max(0, targetKOL.totalInvested + tradeValue)
        newTotalInvested == totalInvested + (IF isBuy THEN tradeValue ELSE 0)
        newMarketShare == MarketShare(newInvestment, newTotalInvested)
        priceCurve == Pow15(2 * newMarketShare)
    IN IF totalInvested = 0 THEN BASE_PRICE
       ELSE ClampPrice(BASE_PRICE + priceCurve)

\* the investment whose market share is the largest: the largest investment
\* over a positive total, the smallest over a negative one
LeadingInvested(shares, total) ==
    LET vs == {shares[k].totalInvested : k \in DOMAIN shares}
    IN IF total > 0 THEN CHOOSE v \in vs : \A w \in vs : w <= v
       ELSE CHOOSE v \in vs : \A w \in vs : v <= w

\* Math.exp(marketShare * 5) of a candidate over that of the leading one,
\* times FP / 10
SoftmaxWeight(invested, leading, total) ==
    ExpNeg(5 * Abs(leading - invested), Abs(total)) \div 10

RECURSIVE SumWeights(_, _, _, _)
SumWeights(shares, ks, leading, total) ==
    IF ks = {} THEN 0
    ELSE LET k == CHOOSE x \in ks : TRUE
         IN SoftmaxWeight(shares[k].totalInvested, leading, total)
            + SumWeights(shares, ks \ {k}, leading, total)

\* PillsMarketEngine.calculateProbabilities (the softmax with numerator and
\* denominator both divided by the leading candidate's exponential)
calculateProbabilities(shares) ==
    LET totalInvested == TotalInvested(shares)
        leading == LeadingInvested(shares, totalInvested)
        softmaxDenominator ==
            SumWeights(shares, DOMAIN shares, leading, totalInvested)
    IN [k \in DOMAIN shares |->
          IF totalInvested = 0
          THEN Fraction(1, Cardinality(DOMAIN shares))
          ELSE Fraction(RoundedRatio(SoftmaxWeight(shares[k].totalInvested,
                                                   leading, totalInvested),
                                     softmaxDenominator),
                        PRICE_SCALE)]

----------------------------------------------------------------------------
(* Order engine *)

\* TradeOrder with the order made as filled already
TradeOrder_BornFilled(user, kol, type, shares, price, value) ==
    [userAddress |-> user, kolAddress |-> kol, type |-> type, shares |-> shares,
     pricePerShare |-> price, totalValue |-> value, status |-> "filled"]

\* the order executeBuyOrder / executeSellOrder build: status 'pending'
TradeOrder(user, kol, type, shares, price, value) ==
    [userAddress |-> user, kolAddress |-> kol, type |-> type, shares |-> shares,
     pricePerShare |-> price, totalValue |-> value, status |-> "pending"]

NoOrder ==
    [userAddress |-> "none", kolAddress |-> "none", type |-> "none", shares |-> 0,
     pricePerShare |-> 0, totalValue |-> 0, status |-> "none"]

\* a call that returns { order, newPrice, sharesReceived | pillsReceived }
Returned(order, newPrice, received) ==
    [ok |-> TRUE, error |-> "", order |-> order, newPrice |-> newPrice,
     received |-> received]

\* a call that throws new Error(message)
Thrown(message) ==
    [ok |-> FALSE, error |-> message, order |-> NoOrder, newPrice |-> 0,
     received |-> 0]

\* executeBuyOrder without its check of the minimum bet
executeBuyOrder_NoMinimum(user, kolAddress, pillsAmount, currentShares) ==
    IF ~KOLFound(currentShares, kolAddress)
    THEN Thrown("KOL not found in market")
    ELSE LET currentPrice ==
                 calculateSharePrice(currentShares, kolAddress, 0, TRUE)
         IN Returned(TradeOrder(user, kolAddress, "buy",
                                MulDiv(pillsAmount, PRICE_SCALE, currentPrice),
                                currentPrice, pillsAmount),
                     calculateSharePrice(currentShares, kolAddress, pillsAmount,
                                         TRUE),
                     MulDiv(pillsAmount, PRICE_SCALE, currentPrice))

\* PillsMarketEngine.executeBuyOrder
executeBuyOrder(user, kolAddress, pillsAmount, currentShares) ==
    IF pillsAmount < MIN_BET * UNIT THEN Thrown("invalid_amount")
    ELSE IF ~KOLFound(currentShares, kolAddress)
    THEN Thrown("KOL not found in market")
    ELSE LET currentPrice ==
                 calculateSharePrice(currentShares, kolAddress, 0, TRUE)
             sharesReceived == MulDiv(pillsAmount, PRICE_SCALE, currentPrice)
             newPrice ==
                 calculateSharePrice(currentShares, kolAddress, pillsAmount, TRUE)
         IN Returned(TradeOrder(user, kolAddress, "buy", sharesReceived,
                                currentPrice, pillsAmount),
                     newPrice, sharesReceived)

\* executeSellOrder without its check of the shares owned
executeSellOrder_Unchecked(user, kolAddress, sharesAmount, currentShares, userPosition) ==
    LET currentPrice == calculateSharePrice(currentShares, kolAddress, 0, FALSE)
        pillsReceived == MulDiv(sharesAmount, currentPrice, PRICE_SCALE)
        newPrice ==
            calculateSharePrice(currentShares, kolAddress, -pillsReceived, FALSE)
    IN Returned(TradeOrder(user, kolAddress, "sell", sharesAmount, currentPrice,
                           pillsReceived),
                newPrice, pillsReceived)

\* PillsMarketEngine.executeSellOrder
executeSellOrder(user, kolAddress, sharesAmount, currentShares, userPosition) ==
    IF sharesAmount > userPosition.sharesOwned THEN Thrown("insufficient_funds")
    ELSE IF ~KOLFound(currentShares, kolAddress)
    THEN Thrown("KOL not found in market")
    ELSE LET currentPrice ==
                 calculateSharePrice(currentShares, kolAddress, 0, FALSE)
             pillsReceived == MulDiv(sharesAmount, currentPrice, PRICE_SCALE)
             newPrice ==
                 calculateSharePrice(currentShares, kolAddress, -pillsReceived,
                                     FALSE)
         IN Returned(TradeOrder(user, kolAddress, "sell", sharesAmount,
                                currentPrice, pillsReceived),
                     newPrice, pillsReceived)

\* updateKOLShareAfterTrade with the shares of a sell added, not taken off
updateKOLShareAfterTrade_SellAdds(kolShare, order, newPrice) ==
    KOLShare(newPrice,
             kolShare.totalShares + order.shares,
             kolShare.totalInvested
                 + (IF order.type = "buy" THEN order.totalValue
                    ELSE -order.totalValue),
             Fraction(0, 1))

\* updateKOLShareAfterTrade with totalInvested kept from going under 0
updateKOLShareAfterTrade_InvestedFloored(kolShare, order, newPrice) ==
    KOLShare(newPrice,
             kolShare.totalShares
                 + (IF order.type = "buy" THEN order.shares ELSE -order.shares),
             Max(0, kolShare.totalInvested
                        + (IF order.type = "buy" THEN order.totalValue
                           ELSE -order.totalValue)),
             Fraction(0, 1))

\* PillsMarketEngine.updateKOLShareAfterTrade
updateKOLShareAfterTrade(kolShare, order, newPrice) ==
    LET isBuy == order.type = "buy"
    IN KOLShare(newPrice,
                kolShare.totalShares
                    + (IF isBuy THEN order.shares ELSE -order.shares),
                kolShare.totalInvested
                    + (IF isBuy THEN order.totalValue ELSE -order.totalValue),
                Fraction(0, 1))

----------------------------------------------------------------------------
(* Position ledger *)

UserPosition(shares, averagePrice, invested, value, pnl) ==
    [exists |-> TRUE, sharesOwned |-> shares, averagePrice |-> averagePrice,
     totalInvested |-> invested, currentValue |-> value, unrealizedPnL |-> pnl]

\* existingPosition === undefined
NoPosition ==
    [exists |-> FALSE, sharesOwned |-> 0, averagePrice |-> 0,
     totalInvested |-> 0, currentValue |-> 0, unrealizedPnL |-> 0]

\* shares * pricePerShare, in pills
ValueOf(shares, price) == MulDiv(shares, price, PRICE_SCALE)

\* PositionAfterSell without its closing of a position with no shares left
PositionAfterSell_NeverClosed(existingPosition, order) ==
    LET newTotalShares == existingPosition.sharesOwned - order.shares
        value == ValueOf(newTotalShares, order.pricePerShare)
    IN [existingPosition EXCEPT
          !.sharesOwned = newTotalShares,
          !.currentValue = value,
          !.unrealizedPnL =
              value - (existingPosition.totalInvested - order.totalValue)]

\* PositionAfterSell with the closed position dropped for an empty one
PositionAfterSell_Dropped(existingPosition, order) ==
    LET newTotalShares == existingPosition.sharesOwned - order.shares
        value == ValueOf(newTotalShares, order.pricePerShare)
    IN IF newTotalShares <= 0
       THEN [existingPosition EXCEPT !.exists = FALSE, !.sharesOwned = 0,
                                     !.averagePrice = 0, !.totalInvested = 0,
                                     !.currentValue = 0, !.unrealizedPnL = 0]
       ELSE [existingPosition EXCEPT
               !.sharesOwned = newTotalShares,
               !.currentValue = value,
               !.unrealizedPnL =
                   value - (existingPosition.totalInvested - order.totalValue)]

\* the position a sell leaves: closed at no shares left, reduced otherwise
PositionAfterSell(existingPosition, order) ==
    LET newTotalShares == existingPosition.sharesOwned - order.shares
        value == ValueOf(newTotalShares, order.pricePerShare)
    IN IF newTotalShares <= 0
       THEN [existingPosition EXCEPT !.sharesOwned = 0, !.currentValue = 0,
                                     !.unrealizedPnL = 0]
       ELSE [existingPosition EXCEPT
               !.sharesOwned = newTotalShares,
               !.currentValue = value,
               !.unrealizedPnL =
                   value - (existingPosition.totalInvested - order.totalValue)]

\* PositionAfterBuy with the order's shares written over the shares owned
PositionAfterBuy_Overwritten(existingPosition, order) ==
    LET newTotalInvested == existingPosition.totalInvested + order.totalValue
        value == ValueOf(order.shares, order.pricePerShare)
    IN UserPosition(order.shares,
                    MulDiv(newTotalInvested, PRICE_SCALE, order.shares),
                    newTotalInvested, value, value - newTotalInvested)

\* the position a buy leaves on an existing one
PositionAfterBuy(existingPosition, order) ==
    LET newTotalShares == existingPosition.sharesOwned + order.shares
        newTotalInvested == existingPosition.totalInvested + order.totalValue
        newAveragePrice == MulDiv(newTotalInvested, PRICE_SCALE, newTotalShares)
        value == ValueOf(newTotalShares, order.pricePerShare)
    IN UserPosition(newTotalShares, newAveragePrice, newTotalInvested, value,
                    value - newTotalInvested)

\* PillsMarketEngine.updateUserPosition: the position returned, or the throw
updateUserPosition(existingPosition, order) ==
    IF ~existingPosition.exists
    THEN IF order.type = "sell"
         THEN [ok |-> FALSE, error |-> "position_not_found",
               position |-> existingPosition]
         ELSE [ok |-> TRUE, error |-> "",
               position |-> UserPosition(order.shares, order.pricePerShare,
                                         order.totalValue, order.totalValue, 0)]
    ELSE [ok |-> TRUE, error |-> "",
          position |-> IF order.type = "buy"
                       THEN PositionAfterBuy(existingPosition, order)
                       ELSE PositionAfterSell(existingPosition, order)]

----------------------------------------------------------------------------
(* Resolution engine *)

\* calculateMarketResolution with the pool taken from the winner alone
calculateMarketResolution_WinnerPool(periodId, winningKOLAddress, shares) ==
    IF ~KOLFound(shares, winningKOLAddress)
    THEN [ok |-> FALSE, error |-> "Winning KOL not found", periodId |-> periodId,
          winner |-> winningKOLAddress, payoutPerShare |-> 0,
          totalWinningShares |-> 0, totalPrizePool |-> 0]
    ELSE LET totalPrizePool == shares[winningKOLAddress].totalInvested
             totalWinningShares == shares[winningKOLAddress].totalShares
         IN [ok |-> TRUE, error |-> "", periodId |-> periodId,
             winner |-> winningKOLAddress,
             payoutPerShare |->
                 IF totalWinningShares > 0
                 THEN MulDiv(totalPrizePool, PRICE_SCALE, totalWinningShares)
                 ELSE 0,
             totalWinningShares |-> totalWinningShares,
             totalPrizePool |-> totalPrizePool]

\* calculateMarketResolution with no look for the winner's record
calculateMarketResolution_AnyWinner(periodId, winningKOLAddress, shares) ==
    [ok |-> TRUE, error |-> "", periodId |-> periodId,
     winner |-> winningKOLAddress, payoutPerShare |-> 0,
     totalWinningShares |-> 0, totalPrizePool |-> TotalInvested(shares)]

\* PillsMarketEngine.calculateMarketResolution
calculateMarketResolution(periodId, winningKOLAddress, shares) ==
    IF ~KOLFound(shares, winningKOLAddress)
    THEN [ok |-> FALSE, error |-> "Winning KOL not found", periodId |-> periodId,
          winner |-> winningKOLAddress, payoutPerShare |-> 0,
          totalWinningShares |-> 0, totalPrizePool |-> 0]
    ELSE LET totalPrizePool == TotalInvested(shares)
             totalWinningShares == shares[winningKOLAddress].totalShares
             payoutPerShare ==
                 IF totalWinningShares > 0
                 THEN MulDiv(totalPrizePool, PRICE_SCALE, totalWinningShares)
                 ELSE 0
         IN [ok |-> TRUE, error |-> "", periodId |-> periodId,
             winner |-> winningKOLAddress, payoutPerShare |-> payoutPerShare,
             totalWinningShares |-> totalWinningShares,
             totalPrizePool |-> totalPrizePool]

----------------------------------------------------------------------------
(* The period's host: it takes orders one at a time, applies each fill to   *)
(* the candidate and to the trader's position, and resolves the period      *)
(* once trading on it has ended.                                            *)

\* what an engine call was and what came of it
Call(op, user, kol, amount, result) ==
    [op |-> op, user |-> user, kol |-> kol, amount |-> amount,
     ok |-> result.ok, error |-> result.error, order |-> result.order,
     newPrice |-> result.newPrice, received |-> result.received]

NoCall == Call("none", "none", "none", 0, Thrown(""))

\* the buys tried: 10 or 100 pills of a candidate by either user, half a pill
\* (below MIN_BET), and a candidate the market does not hold
BuyInputs ==
    (Users \X KOLS \X {10 * UNIT, 100 * UNIT})
        \cup {<<"u1", "kolA", UNIT \div 2>>, <<"u1", UNKNOWN_KOL, 10 * UNIT>>}

\* the sells tried on a position of `owned` shares: all of it, half of it,
\* a share more than it, none, and a negative number of shares
SellAmounts(owned) == {owned, owned \div 2, owned + UNIT, 0, -UNIT}

EngineInit ==
    /\ kolShares = initializeKOLShares
    /\ positions = [p \in Users \X KOLS |-> NoPosition]
    /\ fills = 0
    /\ lastResult = NoCall
    /\ resolutions = <<>>

\* the fill of result's order, applied to the candidate and to the position
ApplyFill(user, kol, result) ==
    /\ kolShares' = [kolShares EXCEPT
                       ![kol] = updateKOLShareAfterTrade(@, result.order,
                                                         result.newPrice)]
    /\ positions' = [positions EXCEPT
                       ![<<user, kol>>] =
                           updateUserPosition(@, result.order).position]
    /\ fills' = fills + 1

Buy(user, kol, pillsAmount) ==
    LET result == executeBuyOrder(user, kol, pillsAmount, kolShares)
    IN /\ resolutions = <<>>
       /\ result.ok => fills < MaxFills
       /\ lastResult' = Call("buy", user, kol, pillsAmount, result)
       /\ IF result.ok THEN ApplyFill(user, kol, result)
          ELSE UNCHANGED <<kolShares, positions, fills>>
       /\ UNCHANGED resolutions

Sell(user, kol, sharesAmount) ==
    LET result == executeSellOrder(user, kol, sharesAmount, kolShares,
                                   positions[<<user, kol>>])
    IN /\ resolutions = <<>>
       /\ positions[<<user, kol>>].exists
       /\ result.ok => fills < MaxFills
       /\ lastResult' = Call("sell", user, kol, sharesAmount, result)
       /\ IF result.ok THEN ApplyFill(user, kol, result)
          ELSE UNCHANGED <<kolShares, positions, fills>>
       /\ UNCHANGED resolutions

Resolve(winner) ==
    LET resolution == calculateMarketResolution(PERIOD_ID, winner, kolShares)
    IN /\ Len(resolutions) < MaxResolutions
       /\ lastResult' = Call("resolve", "none", winner, 0,
                             IF resolution.ok THEN Returned(NoOrder, 0, 0)
                             ELSE Thrown(resolution.error))
       /\ resolutions' = IF resolution.ok THEN Append(resolutions, resolution)
                         ELSE resolutions
       /\ UNCHANGED <<kolShares, positions, fills>>

----------------------------------------------------------------------------
(* The trading hook, the period clock and the database at rest *)

NoHookResult ==
    [call |-> 0, success |-> FALSE, error |-> "", order |-> NoOrder]

NoSummary == [loaded |-> FALSE, kolShares |-> initializeKOLShares]

HookIdle ==
    /\ userAddress = ""
    /\ marketSummary = NoSummary
    /\ pillsBalance = 0
    /\ calls = {}
    /\ callsStarted = 0
    /\ hookResult = NoHookResult
    /\ filledOrders = <<>>

ClockIdle ==
    /\ now = 0
    /\ tzOffset = 0
    /\ currentPeriod = [startTime |-> 0, endTime |-> 0, epochNumber |-> 0,
                        isActive |-> FALSE, isResolved |-> FALSE]

\* the mints and the transaction signatures of the webhooks
Mints == {"mintA", "mintB"}
Signatures == {"sig1", "sig2", "sig3", "sig4"}

\* a (kol, token) pair without a row in trades; the values are the columns'
\* defaults
NoTrade ==
    [exists |-> FALSE, total_buy_amount |-> 0, total_sell_amount |-> 0,
     total_token_bought |-> 0, total_token_sold |-> 0, pnl_sol |-> 0,
     is_open |-> TRUE]

\* a signature without a row in trade_transactions
NoTransaction ==
    [exists |-> FALSE, trade_id |-> <<"", "">>, transaction_type |-> "",
     sol_amount |-> 0, token_amount |-> 0, price_per_token |-> 0]

\* the tables after the schema is loaded and the kols are seeded; a trade's
\* id is its (kol, token) pair, which the table keeps unique
EmptyDatabase ==
    [kols |-> KOLS,
     tokens |-> {},
     trades |-> [t \in KOLS \X Mints |-> NoTrade],
     trade_transactions |-> [s \in Signatures |-> NoTransaction],
     webhook_logs |-> [s \in Signatures |-> "none"]]

\* no transaction() call made yet
NoConnection ==
    [pc |-> "idle", statements |-> <<>>, released |-> 0, committed |-> FALSE,
     error |-> "", outcome |-> "none", settled |-> <<>>]

DatabaseIdle ==
    /\ database = EmptyDatabase
    /\ deliveries = <<>>
    /\ connection = NoConnection

----------------------------------------------------------------------------
(* The market under orders *)

Init == EngineInit /\ HookIdle /\ ClockIdle /\ DatabaseIdle

Next ==
    \/ \E in \in BuyInputs :
           Buy(in[1], in[2], in[3]) /\ UNCHANGED <<hookVars, clockVars, dbVars>>
    \/ \E u \in Users, k \in KOLS :
           \E a \in SellAmounts(positions[<<u, k>>].sharesOwned) :
               Sell(u, k, a) /\ UNCHANGED <<hookVars, clockVars, dbVars>>

Spec == Init /\ [][Next]_vars

----------------------------------------------------------------------------
(* The period traded by one user, then resolved *)

NextResolution ==
    \/ \E k \in KOLS :
           Buy("u1", k, 100 * UNIT) /\ UNCHANGED <<hookVars, clockVars, dbVars>>
    \/ \E k \in KOLS :
           Sell("u1", k, positions[<<"u1", k>>].sharesOwned)
               /\ UNCHANGED <<hookVars, clockVars, dbVars>>
    \/ \E w \in KOLS \cup {UNKNOWN_KOL} :
           Resolve(w) /\ UNCHANGED <<hookVars, clockVars, dbVars>>

SpecResolution == Init /\ [][NextResolution]_vars

----------------------------------------------------------------------------
(* One position under updateUserPosition calls of any kind and size *)

LedgerOrders ==
    {TradeOrder("u1", "kolA", type, shares, price, ValueOf(shares, price)) :
        type \in {"buy", "sell"},
        shares \in {100 * UNIT, 300 * UNIT},
        price \in {BASE_PRICE, MAX_PRICE}}

UpdatePosition(order) ==
    LET key == <<order.userAddress, order.kolAddress>>
        result == updateUserPosition(positions[key], order)
    IN /\ fills < MaxLedgerCalls
       /\ fills' = fills + 1
       /\ positions' = [positions EXCEPT ![key] = result.position]
       /\ lastResult' = Call("position", order.userAddress, order.kolAddress,
                             order.shares,
                             [ok |-> result.ok, error |-> result.error,
                              order |-> order, newPrice |-> 0, received |-> 0])
       /\ UNCHANGED <<kolShares, resolutions>>

NextLedger ==
    \E order \in LedgerOrders :
        UpdatePosition(order) /\ UNCHANGED <<hookVars, clockVars, dbVars>>

SpecLedger == Init /\ [][NextLedger]_vars

----------------------------------------------------------------------------
(* The trading hook: useTrading over useMarketData and useUserPortfolio *)

\* setMarketSummary(summary) of loadMarketData: the freshly initialized shares
LoadedSummary ==
    [loaded |-> TRUE,
     kolShares |->
         [k \in KOLS |->
             [initializeKOLShares[k] EXCEPT
                 !.probability = calculateProbabilities(initializeKOLShares)[k]]]]

\* return { success: false, error }
Failure(id, message) ==
    [call |-> id, success |-> FALSE, error |-> message, order |-> NoOrder]

\* return { success: true, order }
Success(id, order) ==
    [call |-> id, success |-> TRUE, error |-> "", order |-> order]

\* a call past the engine, waiting on the simulated network; balance is the
\* pillsBalance its closure holds
Waiting(id, kind, result, balance) ==
    [id |-> id, kind |-> kind, order |-> result.order,
     received |-> result.received, balance |-> balance]

HookBuyInputs ==
    {"kolA", UNKNOWN_KOL} \X {UNIT \div 2, 100 * UNIT, 2000 * UNIT}
HookSellInputs == {"kolA", UNKNOWN_KOL} \X {200 * UNIT}

\* the wallet connects; loadPortfolio sets the demo balance
Connect ==
    /\ userAddress = ""
    /\ userAddress' = "u1"
    /\ pillsBalance' = DEMO_BALANCE * UNIT
    /\ UNCHANGED <<marketSummary, calls, callsStarted, hookResult, filledOrders>>

\* the wallet disconnects; loadPortfolio clears the balance
Disconnect ==
    /\ userAddress # ""
    /\ userAddress' = ""
    /\ pillsBalance' = 0
    /\ UNCHANGED <<marketSummary, calls, callsStarted, hookResult, filledOrders>>

\* useMarketData's mount effect: loadMarketData
LoadMarket ==
    /\ ~marketSummary.loaded
    /\ marketSummary' = LoadedSummary
    /\ UNCHANGED <<userAddress, pillsBalance, calls, callsStarted, hookResult,
                   filledOrders>>

\* buyShares with updateBalance moved ahead of the engine call
BuySharesStart_DebitFirst(kolAddress, pillsAmount) ==
    LET id == callsStarted + 1
        result == executeBuyOrder(userAddress, kolAddress, pillsAmount,
                                  marketSummary.kolShares)
    IN /\ callsStarted < MaxCalls
       /\ callsStarted' = id
       /\ UNCHANGED <<userAddress, marketSummary, filledOrders>>
       /\ IF userAddress = "" \/ ~marketSummary.loaded
          THEN /\ hookResult' =
                      Failure(id, "Wallet not connected or market not loaded")
               /\ UNCHANGED <<calls, pillsBalance>>
          ELSE IF pillsAmount > pillsBalance
          THEN /\ hookResult' = Failure(id, "Insufficient PILLS balance")
               /\ UNCHANGED <<calls, pillsBalance>>
          ELSE IF pillsAmount < MIN_BET * UNIT
          THEN /\ hookResult' = Failure(id, "Minimum bet is 1 PILLS")
               /\ UNCHANGED <<calls, pillsBalance>>
          ELSE /\ pillsBalance' = pillsBalance - pillsAmount
               /\ IF ~result.ok
                  THEN /\ hookResult' = Failure(id, result.error)
                       /\ UNCHANGED calls
                  ELSE /\ calls' = calls \cup
                                     {Waiting(id, "buy", result, pillsBalance)}
                       /\ UNCHANGED hookResult

\* useTrading.buyShares up to its wait on the network
BuySharesStart(kolAddress, pillsAmount) ==
    LET id == callsStarted + 1
        result == executeBuyOrder(userAddress, kolAddress, pillsAmount,
                                  marketSummary.kolShares)
    IN /\ callsStarted < MaxCalls
       /\ callsStarted' = id
       /\ UNCHANGED <<userAddress, marketSummary, pillsBalance, filledOrders>>
       /\ IF userAddress = "" \/ ~marketSummary.loaded
          THEN /\ hookResult' =
                      Failure(id, "Wallet not connected or market not loaded")
               /\ UNCHANGED calls
          ELSE IF pillsAmount > pillsBalance
          THEN /\ hookResult' = Failure(id, "Insufficient PILLS balance")
               /\ UNCHANGED calls
          ELSE IF pillsAmount < MIN_BET * UNIT
          THEN /\ hookResult' = Failure(id, "Minimum bet is 1 PILLS")
               /\ UNCHANGED calls
          ELSE IF ~result.ok
          THEN /\ hookResult' = Failure(id, result.error)
               /\ UNCHANGED calls
          ELSE /\ calls' = calls \cup {Waiting(id, "buy", result, pillsBalance)}
               /\ UNCHANGED hookResult

\* useTrading.sellShares up to its wait on the network
SellSharesStart(kolAddress, sharesAmount) ==
    LET id == callsStarted + 1
        mockPosition ==
            UserPosition(sharesAmount, BASE_PRICE,
                         ValueOf(sharesAmount, BASE_PRICE), 0, 0)
        result == executeSellOrder(userAddress, kolAddress, sharesAmount,
                                   marketSummary.kolShares, mockPosition)
    IN /\ callsStarted < MaxCalls
       /\ callsStarted' = id
       /\ UNCHANGED <<userAddress, marketSummary, pillsBalance, filledOrders>>
       /\ IF userAddress = "" \/ ~marketSummary.loaded
          THEN /\ hookResult' =
                      Failure(id, "Wallet not connected or market not loaded")
               /\ UNCHANGED calls
          ELSE IF ~result.ok
          THEN /\ hookResult' = Failure(id, result.error)
               /\ UNCHANGED calls
          ELSE /\ calls' = calls \cup {Waiting(id, "sell", result, pillsBalance)}
               /\ UNCHANGED hookResult

\* buyShares / sellShares after the wait: updateBalance with the closure's
\* balance, the order marked filled, refreshMarket, the result returned
TradeFinish(call) ==
    /\ call \in calls
    /\ calls' = calls \ {call}
    /\ pillsBalance' = IF call.kind = "buy"
                       THEN call.balance - call.order.totalValue
                       ELSE call.balance + call.received
    /\ filledOrders' =
           Append(filledOrders, [call.order EXCEPT !.status = "filled"])
    /\ marketSummary' = LoadedSummary
    /\ hookResult' = Success(call.id, [call.order EXCEPT !.status = "filled"])
    /\ UNCHANGED <<userAddress, callsStarted>>

NextHook ==
    \/ Connect /\ UNCHANGED <<engineVars, clockVars, dbVars>>
    \/ Disconnect /\ UNCHANGED <<engineVars, clockVars, dbVars>>
    \/ LoadMarket /\ UNCHANGED <<engineVars, clockVars, dbVars>>
    \/ \E in \in HookBuyInputs :
           BuySharesStart(in[1], in[2]) /\ UNCHANGED <<engineVars, clockVars, dbVars>>
    \/ \E in \in HookSellInputs :
           SellSharesStart(in[1], in[2]) /\ UNCHANGED <<engineVars, clockVars, dbVars>>
    \/ \E call \in calls :
           TradeFinish(call) /\ UNCHANGED <<engineVars, clockVars, dbVars>>

SpecHook == Init /\ [][NextHook]_vars

----------------------------------------------------------------------------
(* The period clock *)

TZOffsets == -12..14
Instants == 0..(MaxDays * HOURS_PER_DAY)

\* new Date(year, month, date).getTime(): midnight of that calendar day in the
\* host's zone, day counted from the epoch
LocalMidnight(day, offset) == day * HOURS_PER_DAY - offset

\* the UTC calendar day of an instant: getUTCFullYear, getUTCMonth, getUTCDate
UTCDay(instant) == instant \div HOURS_PER_DAY

\* useMarketData.currentPeriod computed at `instant` on a host at `offset`
MaterializePeriod(instant, offset) ==
    LET startTime == LocalMidnight(UTCDay(instant), offset)
        endTime == startTime + HOURS_PER_DAY
    IN [startTime |-> startTime, endTime |-> endTime,
        epochNumber |-> startTime \div HOURS_PER_DAY,
        isActive |-> (instant >= startTime /\ instant < endTime),
        isResolved |-> (instant >= endTime)]

\* the page is first mounted at instant 0, on a host in any zone
ClockInit ==
    /\ tzOffset \in TZOffsets
    /\ now = 0
    /\ currentPeriod = MaterializePeriod(now, tzOffset)

\* the page is mounted again at a later instant
Remount(instant) ==
    /\ instant > now
    /\ now' = instant
    /\ currentPeriod' = MaterializePeriod(instant, tzOffset)
    /\ UNCHANGED tzOffset

NextClock ==
    \E instant \in Instants :
        Remount(instant) /\ UNCHANGED <<engineVars, hookVars, dbVars>>

InitClock == EngineInit /\ HookIdle /\ ClockInit /\ DatabaseIdle

SpecClock == InitClock /\ [][NextClock]_vars

----------------------------------------------------------------------------
(* Properties of the market under orders *)

\* C1: after any sequence of accepted buys and sells applied with
\* updateKOLShareAfterTrade, no candidate's totalInvested is below 0.
C1_TotalInvestedNonNegative ==
    \A k \in KOLS : kolShares[k].totalInvested >= 0

\* the trade deltas a price is asked for
QuoteDeltas == {0, 10 * UNIT, -(10 * UNIT), 1000 * UNIT}

PriceInBounds(p) == MIN_PRICE <= p /\ p <= MAX_PRICE

\* C2: for every market state, candidate, trade delta and side,
\* calculateSharePrice returns a price in [0.05, 0.95]; so every price the
\* engine returns for a fill, and every pricePerShare stored, is in it too.
C2_PriceWithinBounds ==
    /\ \A k \in KOLS, d \in QuoteDeltas, isBuy \in BOOLEAN :
           PriceInBounds(calculateSharePrice(kolShares, k, d, isBuy))
    /\ \A k \in KOLS : PriceInBounds(kolShares[k].pricePerShare)
    /\ lastResult.ok => /\ PriceInBounds(lastResult.newPrice)
                        /\ PriceInBounds(lastResult.order.pricePerShare)

\* a fill has stored a price on the curve, between the base price and the cap,
\* and the current prices are off the base price
C2_Witness ==
    /\ fills > 0
    /\ \E k \in KOLS : /\ kolShares[k].pricePerShare > BASE_PRICE
                       /\ kolShares[k].pricePerShare < MAX_PRICE
    /\ \E k \in KOLS : calculateSharePrice(kolShares, k, 0, TRUE) > BASE_PRICE

\* C3: for every resolution computed on a market reached by fills,
\* payoutPerShare * totalWinningShares <= totalPrizePool.
C3_PayoutWithinPool ==
    \A i \in 1..Len(resolutions) :
        resolutions[i].payoutPerShare * resolutions[i].totalWinningShares
            <= resolutions[i].totalPrizePool * PRICE_SCALE

\* C4: executeSellOrder with sharesAmount above userPosition.sharesOwned throws
\* the insufficient-shares error, returns no order, and the candidates' shares
\* and the user's position stay as they were.
C4_OversellRejected ==
    [][(/\ lastResult'.op = "sell"
        /\ lastResult'.amount
               > positions[<<lastResult'.user, lastResult'.kol>>].sharesOwned)
       => (/\ ~lastResult'.ok
           /\ lastResult'.error = "insufficient_funds"
           /\ lastResult'.order = NoOrder
           /\ kolShares' = kolShares
           /\ positions' = positions)]_vars

\* a sell of more shares than the position holds was tried and thrown out
C4_Witness ==
    /\ lastResult.op = "sell"
    /\ lastResult.error = "insufficient_funds"
    /\ lastResult.amount
           > positions[<<lastResult.user, lastResult.kol>>].sharesOwned
    /\ positions[<<lastResult.user, lastResult.kol>>].sharesOwned > 0

\* C7: in a two-candidate market with nothing invested, a buy of 100 pills of
\* a candidate returns 200 shares and a newPrice of 0.95, and the other
\* candidate's stored price stays 0.50.
C7_FirstBuyOfHundred ==
    (fills = 1 /\ lastResult.op = "buy" /\ lastResult.amount = 100 * UNIT)
        => /\ lastResult.received = 200 * UNIT
           /\ lastResult.newPrice = MAX_PRICE
           /\ \A k \in KOLS \ {lastResult.kol} :
                  kolShares[k].pricePerShare = BASE_PRICE

\* C8: once a resolution exists for the period, a further resolution attempt
\* fails with already_resolved and the first record stays as it was.
C8_ResolvedOnce ==
    [][(resolutions # <<>> /\ lastResult'.op = "resolve")
       => (/\ ~lastResult'.ok
           /\ lastResult'.error = "already_resolved"
           /\ resolutions' = resolutions)]_vars

\* one candidate's totalInvested raised by d, the others as they are
Raised(shares, k, d) == [shares EXCEPT ![k].totalInvested = @ + d]

Raises == {UNIT, 10 * UNIT, 100 * UNIT}

\* the zero-delta price and the probability of k do not fall from shares to more
NotLower(shares, more, k) ==
    /\ calculateSharePrice(more, k, 0, TRUE)
           >= calculateSharePrice(shares, k, 0, TRUE)
    /\ FracLeq(calculateProbabilities(shares)[k],
               calculateProbabilities(more)[k])

\* C10: of two market states that differ only in one candidate's totalInvested,
\* larger in the second, that candidate's zero-delta price and its probability
\* are not lower in the second.
C10_Monotone ==
    \A k \in KOLS, d \in Raises : NotLower(kolShares, Raised(kolShares, k, d), k)

\* the same over the markets where no totalInvested is negative
MonotoneOverNonNegative ==
    (\A k \in KOLS : kolShares[k].totalInvested >= 0) => C10_Monotone

----------------------------------------------------------------------------
(* Properties of the position ledger, the trading hook and the clock *)

\* C5: when a buy or sell through the trading hook fails, the failure comes
\* back with its reason and no order, no order is filled or left waiting, and
\* the pills balance and the candidates' share records are as before the call.
C5_FailureHasNoEffect ==
    [][(hookResult'.call # hookResult.call /\ ~hookResult'.success)
       => (/\ hookResult'.error # ""
           /\ hookResult'.order = NoOrder
           /\ filledOrders' = filledOrders
           /\ calls' = calls
           /\ pillsBalance' = pillsBalance
           /\ marketSummary' = marketSummary)]_vars

\* the engine threw under a connected wallet with a loaded market and funds
C5_Witness ==
    /\ ~hookResult.success
    /\ hookResult.error = "KOL not found in market"
    /\ pillsBalance > 0
    /\ marketSummary.loaded

\* C6: after any sequence of updateUserPosition calls, buys and sells in any
\* order and of any size, sharesOwned is not negative.
C6_SharesOwnedNonNegative ==
    \A p \in DOMAIN positions : positions[p].sharesOwned >= 0

\* a position of 100 shares was sold 300 shares and stands closed
C6_Witness ==
    /\ fills = 2
    /\ lastResult.op = "position"
    /\ lastResult.ok
    /\ lastResult.order.type = "sell"
    /\ lastResult.order.shares = 300 * UNIT
    /\ positions[<<"u1", "kolA">>].exists
    /\ positions[<<"u1", "kolA">>].sharesOwned = 0
    /\ positions[<<"u1", "kolA">>].totalInvested = 50 * UNIT

\* C9: at every instant and on every host time zone, the materialized period
\* starts at 00:00 UTC of the UTC day holding `now` and ends 24 hours later,
\* so start <= now < end, isActive is true and isResolved is false.
C9_PeriodIsUtcDay ==
    /\ currentPeriod.startTime = (now \div HOURS_PER_DAY) * HOURS_PER_DAY
    /\ currentPeriod.endTime = currentPeriod.startTime + HOURS_PER_DAY
    /\ currentPeriod.startTime <= now
    /\ now < currentPeriod.endTime
    /\ currentPeriod.isActive
    /\ ~currentPeriod.isResolved

\* the same on a host whose zone is UTC
PeriodIsUtcDayOnUtcHost == tzOffset = 0 => C9_PeriodIsUtcDay

----------------------------------------------------------------------------
(* Markets of any number of candidates, bought into and then summarized *)

\* the numbers of candidates tracked: few, the application's, and more
MarketSizes == {1, 2, 3, TRACKED_COUNT, MaxCandidates}

RECURSIVE SumShares(_, _)
SumShares(shares, ks) ==
    IF ks = {} THEN 0
    ELSE LET k == CHOOSE x \in ks : TRUE
         IN shares[k].totalShares + SumShares(shares, ks \ {k})

\* kolShares.reduce((max, share) => share.totalInvested >
\* (max?.totalInvested || 0) ? share : max, kolShares[0]): the shares are an
\* array 1..n and x || 0 is x for every number x, so the reduce keeps the
\* first element that no element exceeds
mostPopular(shares) ==
    CHOOSE i \in DOMAIN shares :
        /\ \A j \in DOMAIN shares :
               shares[j].totalInvested <= shares[i].totalInvested
        /\ \A j \in 1..(i - 1) :
               shares[j].totalInvested < shares[i].totalInvested

\* kolShares.reduce((max, share) => share.probability >
\* (max?.probability || 0) ? share : max, kolShares[0]): the same over the
\* probabilities stored in the shares passed in
currentFavorite(shares) ==
    CHOOSE i \in DOMAIN shares :
        /\ \A j \in DOMAIN shares :
               FracLeq(shares[j].probability, shares[i].probability)
        /\ \A j \in 1..(i - 1) :
               ~FracLeq(shares[i].probability, shares[j].probability)

\* PillsMarketEngine.generateMarketSummary
generateMarketSummary(shares) ==
    LET probabilities == calculateProbabilities(shares)
    IN [kolShares |-> [k \in DOMAIN shares |->
                         [shares[k] EXCEPT !.probability = probabilities[k]]],
        totalVolume |-> TotalInvested(shares),
        totalShares |-> SumShares(shares, DOMAIN shares),
        mostPopular |-> mostPopular(shares),
        currentFavorite |-> currentFavorite(shares)]

\* the candidates with money on them
Backed(shares) == {k \in DOMAIN shares : shares[k].totalInvested > 0}

\* the buys tried next: 10 pills of the first candidate nobody has bought yet,
\* and, while the first of all is the only one bought, 100 pills more of it
NextBuys(shares) ==
    {<<k, 10 * UNIT>> : k \in DOMAIN shares \cap {Cardinality(Backed(shares)) + 1}}
        \cup {<<k, 100 * UNIT>> : k \in {j \in {1} : /\ Backed(shares) = {1}
                                                    /\ fills <= MaxLeadBuys}}

\* a buy filled on a market that has not been summarized yet
Invest(kol, pillsAmount) ==
    LET result == executeBuyOrder("u1", kol, pillsAmount, kolShares)
    IN /\ ~marketSummary.loaded
       /\ result.ok
       /\ lastResult' = Call("buy", "u1", kol, pillsAmount, result)
       /\ kolShares' = [kolShares EXCEPT
                          ![kol] = updateKOLShareAfterTrade(@, result.order,
                                                            result.newPrice)]
       /\ fills' = fills + 1
       /\ UNCHANGED <<positions, resolutions>>

\* the market summarized: setMarketSummary(generateMarketSummary(...))
Summarize ==
    /\ ~marketSummary.loaded
    /\ marketSummary' =
           LET summary == generateMarketSummary(kolShares)
           IN [loaded |-> TRUE,
               kolShares |-> summary.kolShares,
               mostPopular |-> summary.mostPopular,
               currentFavorite |-> summary.currentFavorite]
    /\ UNCHANGED <<userAddress, pillsBalance, calls, callsStarted, hookResult,
                   filledOrders>>

InitSummary ==
    /\ \E n \in MarketSizes : kolShares = TrackedShares(1..n)
    /\ positions = [p \in Users \X KOLS |-> NoPosition]
    /\ fills = 0
    /\ lastResult = NoCall
    /\ resolutions = <<>>
    /\ HookIdle
    /\ ClockIdle
    /\ DatabaseIdle

NextSummary ==
    \/ \E in \in NextBuys(kolShares) :
           Invest(in[1], in[2]) /\ UNCHANGED <<hookVars, clockVars, dbVars>>
    \/ Summarize /\ UNCHANGED <<engineVars, clockVars, dbVars>>

SpecSummary == InitSummary /\ [][NextSummary]_vars

\* the sum of a map of probabilities is within 0.001 of 1; the probabilities
\* of one map are all over the same denominator
RECURSIVE SumNumerators(_, _)
SumNumerators(probs, ks) ==
    IF ks = {} THEN 0
    ELSE LET k == CHOOSE x \in ks : TRUE
         IN probs[k][1] + SumNumerators(probs, ks \ {k})

SumsToOne(probs) ==
    LET den == probs[CHOOSE k \in DOMAIN probs : TRUE][2]
    IN Abs(SumNumerators(probs, DOMAIN probs) - den) * 1000 <= den

SummaryProbabilities ==
    [k \in DOMAIN marketSummary.kolShares |->
        marketSummary.kolShares[k].probability]

NothingInvested(shares) == \A k \in DOMAIN shares : shares[k].totalInvested = 0

\* C12: while every candidate has zero totalInvested, calculateProbabilities
\* gives each of the N candidates exactly 1/N, the summary carries those, and
\* calculateSharePrice gives 0.50 for every candidate, trade delta and side.
C12_UniformPrior ==
    NothingInvested(kolShares) =>
        /\ \A k \in DOMAIN kolShares :
               calculateProbabilities(kolShares)[k]
                   = Fraction(1, Cardinality(DOMAIN kolShares))
        /\ \A k \in DOMAIN kolShares, d \in QuoteDeltas, isBuy \in BOOLEAN :
               calculateSharePrice(kolShares, k, d, isBuy) = BASE_PRICE
        /\ marketSummary.loaded =>
               \A k \in DOMAIN kolShares :
                   marketSummary.kolShares[k].probability
                       = Fraction(1, Cardinality(DOMAIN kolShares))

\* the 21-candidate market was summarized with nothing invested
C12_Witness ==
    /\ marketSummary.loaded
    /\ NothingInvested(kolShares)
    /\ Cardinality(DOMAIN kolShares) = TRACKED_COUNT
    /\ marketSummary.kolShares[TRACKED_COUNT].probability
           = Fraction(1, TRACKED_COUNT)

----------------------------------------------------------------------------
(* The period under orders of every size, with the filled orders kept *)

\* the buys tried: 10 pills of a candidate by either user; by u1 on kolA no
\* pills, a hundredth under MIN_BET and MIN_BET itself; and buys of a
\* candidate the market does not hold, above and under MIN_BET
OrderBuyInputs ==
    (Users \X KOLS \X {10 * UNIT})
        \cup ({"u1"} \X {"kolA"} \X {0, MIN_BET * UNIT - 1, MIN_BET * UNIT})
        \cup ({"u1"} \X {UNKNOWN_KOL} \X {0, 10 * UNIT})

\* the order of the call just made, kept with status filled once applied
KeepFilled ==
    /\ filledOrders' =
           IF lastResult'.ok
           THEN Append(filledOrders, [lastResult'.order EXCEPT !.status = "filled"])
           ELSE filledOrders
    /\ UNCHANGED <<userAddress, marketSummary, pillsBalance, calls,
                   callsStarted, hookResult>>

NextOrders ==
    \/ \E in \in OrderBuyInputs :
           Buy(in[1], in[2], in[3]) /\ KeepFilled /\ UNCHANGED <<clockVars, dbVars>>
    \/ \E u \in Users, k \in KOLS :
           \E a \in SellAmounts(positions[<<u, k>>].sharesOwned) :
               Sell(u, k, a) /\ KeepFilled /\ UNCHANGED <<clockVars, dbVars>>

SpecOrders == Init /\ [][NextOrders]_vars

\* C13: executeBuyOrder with pillsAmount under MIN_BET throws invalid_amount
\* and returns no order; with pillsAmount >= MIN_BET on a candidate of the
\* market it returns a pending buy order with totalValue = pillsAmount and
\* shares = pillsAmount / the zero-delta price before the buy.
C13_BuyValidation ==
    [][lastResult'.op = "buy" =>
         /\ lastResult'.amount < MIN_BET * UNIT =>
                /\ ~lastResult'.ok
                /\ lastResult'.error = "invalid_amount"
                /\ lastResult'.order = NoOrder
         /\ (lastResult'.amount >= MIN_BET * UNIT /\ lastResult'.kol \in KOLS) =>
                LET price == calculateSharePrice(kolShares, lastResult'.kol, 0, TRUE)
                    order == lastResult'.order
                IN /\ lastResult'.ok
                   /\ order.type = "buy"
                   /\ order.status = "pending"
                   /\ order.totalValue = lastResult'.amount
                   /\ order.pricePerShare = price
                   /\ order.shares * price <= lastResult'.amount * PRICE_SCALE
                   /\ lastResult'.amount * PRICE_SCALE < (order.shares + 1) * price
                   /\ lastResult'.received = order.shares]_vars

\* a buy of 0.99 pills was thrown out on a market with fills in it
C13_Witness ==
    /\ lastResult.op = "buy"
    /\ lastResult.amount = MIN_BET * UNIT - 1
    /\ lastResult.error = "invalid_amount"
    /\ fills > 0

\* C14: executeSellOrder with a sharesAmount of zero or less throws
\* invalid_amount, returns no order, and the candidates' shares and the
\* positions stay as they were.
C14_NonPositiveSellRejected ==
    [][(lastResult'.op = "sell" /\ lastResult'.amount <= 0) =>
         /\ ~lastResult'.ok
         /\ lastResult'.error = "invalid_amount"
         /\ lastResult'.order = NoOrder
         /\ kolShares' = kolShares
         /\ positions' = positions]_vars

\* C15: a sell through updateUserPosition that leaves no shares (the sale of
\* exactly the shares bought, or of more) gives a position with sharesOwned,
\* currentValue and unrealizedPnL all 0, whose totalInvested and averagePrice
\* are those of before the sell, and the position record is still there.
C15_ClosedPositionRetained ==
    [][LET key == <<lastResult'.user, lastResult'.kol>>
           order == lastResult'.order
       IN (/\ lastResult'.op = "position"
           /\ order.type = "sell"
           /\ positions[key].exists
           /\ positions[key].sharesOwned - order.shares <= 0)
          => /\ lastResult'.ok
             /\ positions'[key].exists
             /\ positions'[key].sharesOwned = 0
             /\ positions'[key].currentValue = 0
             /\ positions'[key].unrealizedPnL = 0
             /\ positions'[key].totalInvested = positions[key].totalInvested
             /\ positions'[key].averagePrice = positions[key].averagePrice]_vars

\* 100 shares were bought at 0.50 and exactly 100 shares sold: the position
\* stands at no shares with its 50 pills invested and its average price
C15_Witness ==
    /\ fills = 2
    /\ lastResult.op = "position"
    /\ lastResult.order.type = "sell"
    /\ lastResult.order.shares = 100 * UNIT
    /\ positions[<<"u1", "kolA">>].exists
    /\ positions[<<"u1", "kolA">>].sharesOwned = 0
    /\ positions[<<"u1", "kolA">>].totalInvested = 50 * UNIT
    /\ positions[<<"u1", "kolA">>].averagePrice = BASE_PRICE

----------------------------------------------------------------------------
(* Properties of the resolution *)

\* C16: every resolution returned has totalPrizePool = the sum of totalInvested
\* over the candidates, totalWinningShares = the winner's totalShares, and
\* payoutPerShare = totalPrizePool / totalWinningShares when there are winning
\* shares, 0 when there are none.
C16_ResolutionAmounts ==
    \A i \in 1..Len(resolutions) :
        LET r == resolutions[i]
        IN /\ r.totalPrizePool = TotalInvested(kolShares)
           /\ r.totalWinningShares = kolShares[r.winner].totalShares
           /\ IF r.totalWinningShares > 0
              THEN /\ r.payoutPerShare * r.totalWinningShares
                          <= r.totalPrizePool * PRICE_SCALE
                   /\ r.totalPrizePool * PRICE_SCALE
                          < (r.payoutPerShare + 1) * r.totalWinningShares
              ELSE r.payoutPerShare = 0

\* a period with money in it was resolved once for a candidate nobody holds,
\* at a payout of 0, and once for a candidate with shares, at a payout above 0
C16_Witness ==
    /\ \E i \in 1..Len(resolutions) :
           /\ resolutions[i].totalWinningShares = 0
           /\ resolutions[i].totalPrizePool > 0
           /\ resolutions[i].payoutPerShare = 0
    /\ \E i \in 1..Len(resolutions) :
           /\ resolutions[i].totalWinningShares > 0
           /\ resolutions[i].payoutPerShare > 0

\* C17: calculateMarketResolution for a winner with no KOLShare record in the
\* market throws a not-found error and returns no resolution record.
C17_UnknownWinnerRejected ==
    [][(lastResult'.op = "resolve" /\ ~KOLFound(kolShares, lastResult'.kol))
       => (/\ ~lastResult'.ok
           /\ lastResult'.error = "Winning KOL not found"
           /\ resolutions' = resolutions)]_vars

\* a resolution for a candidate the market does not hold was thrown out, on
\* a period with money in it
C17_Witness ==
    /\ lastResult.op = "resolve"
    /\ lastResult.kol = UNKNOWN_KOL
    /\ lastResult.error = "Winning KOL not found"
    /\ TotalInvested(kolShares) > 0

----------------------------------------------------------------------------
(* Properties of the orders of the trading hook *)

\* C18: an order's status only moves forward: every order the engine has
\* returned and the hook is waiting on is pending; an order leaves the wait
\* only as filled (or failed); the orders filled stay as they are, filled, and
\* no order is ever cancelled.
C18_StatusMovesForward ==
    [][/\ \A c \in calls' : c.order.status = "pending"
       /\ \A c \in calls \ calls' :
              /\ filledOrders' # filledOrders
              /\ filledOrders'[Len(filledOrders')].status \in {"filled", "failed"}
              /\ [filledOrders'[Len(filledOrders')] EXCEPT !.status = "pending"]
                     = c.order
       /\ Len(filledOrders') >= Len(filledOrders)
       /\ \A i \in 1..Len(filledOrders) : filledOrders'[i] = filledOrders[i]
       /\ \A i \in 1..Len(filledOrders') : filledOrders'[i].status = "filled"
       /\ hookResult'.success => hookResult'.order.status = "filled"]_vars

\* one order is filled while a later one is still pending on the network
C18_Witness ==
    /\ Len(filledOrders) > 0
    /\ filledOrders[1].status = "filled"
    /\ \E c \in calls : c.order.status = "pending"
    /\ hookResult.success

----------------------------------------------------------------------------
(* Properties of the candidates' shares under filled orders *)

\* the shares of the filled buys of `kol` less those of its filled sells
RECURSIVE NetFilledShares(_, _)
NetFilledShares(orders, kol) ==
    IF orders = <<>> THEN 0
    ELSE LET order == Head(orders)
         IN (IF order.kolAddress # kol THEN 0
             ELSE IF order.type = "buy" THEN order.shares
             ELSE -order.shares)
            + NetFilledShares(Tail(orders), kol)

\* C19: after any sequence of fills, each candidate's totalShares is the sum
\* of the shares of its filled buys less those of its filled sells, and, every
\* sell having passed executeSellOrder on the seller's position, is not
\* negative.
C19_SharesMatchFills ==
    \A k \in KOLS :
        /\ kolShares[k].totalShares = NetFilledShares(filledOrders, k)
        /\ kolShares[k].totalShares >= 0

\* both users bought a candidate, one of them sold a part, and shares of it
\* are still out
C19_Witness ==
    /\ Len(filledOrders) = 3
    /\ \E i, j \in 1..3 :
           /\ filledOrders[i].userAddress # filledOrders[j].userAddress
           /\ filledOrders[i].kolAddress = "kolA"
           /\ filledOrders[j].kolAddress = "kolA"
           /\ filledOrders[i].type = "buy"
           /\ filledOrders[j].type = "buy"
    /\ filledOrders[3].type = "sell"
    /\ filledOrders[3].kolAddress = "kolA"
    /\ filledOrders[3].shares > 0
    /\ kolShares["kolA"].totalShares > 0

\* C20: when buyShares or sellShares returns its order filled, the market
\* summary's record of the traded candidate has its totalShares and its
\* totalInvested moved by the order's shares and value.
C20_FilledOrderReflected ==
    [][(hookResult'.call # hookResult.call /\ hookResult'.success)
       => LET order == hookResult'.order
              sign == IF order.type = "buy" THEN 1 ELSE -1
              before == marketSummary.kolShares[order.kolAddress]
              after == marketSummary'.kolShares[order.kolAddress]
          IN /\ after.totalShares = before.totalShares + sign * order.shares
             /\ after.totalInvested
                    = before.totalInvested + sign * order.totalValue]_vars

----------------------------------------------------------------------------
(* Properties of the prices under fills *)

\* C21: the newPrice executeSellOrder returns for a sell of a positive number
\* of shares is the curve price of the candidate's investment less the pills
\* received, over the unchanged total, and is not above the price before
\* the sell.
C21_SellLowersPrice ==
    [][(lastResult'.op = "sell" /\ lastResult'.ok /\ lastResult'.amount > 0)
       => /\ lastResult'.newPrice
                 = calculateSharePrice(kolShares, lastResult'.kol,
                                       lastResult'.received, FALSE)
          /\ lastResult'.newPrice <= lastResult'.order.pricePerShare]_vars

\* C22: orders being applied one at a time, after every fill the traded
\* candidate's stored pricePerShare is the zero-delta price calculateSharePrice
\* gives on the market as the fill has left it.
C22_StoredPriceIsCurvePrice ==
    (lastResult.ok /\ lastResult.op \in {"buy", "sell"})
        => kolShares[lastResult.kol].pricePerShare
               = calculateSharePrice(kolShares, lastResult.kol, 0, TRUE)

\* the same for the buys into a market that had money in it
BuyIntoFundedMarketStoresCurvePrice ==
    (/\ lastResult.ok
     /\ lastResult.op = "buy"
     /\ TotalInvested(kolShares) # lastResult.amount
     /\ TotalInvested(kolShares) # 0)
        => kolShares[lastResult.kol].pricePerShare
               = calculateSharePrice(kolShares, lastResult.kol, 0, TRUE)

----------------------------------------------------------------------------
(* Properties of the positions and the funds *)

\* C23: a sell through updateUserPosition that leaves shares gives a position
\* with sharesOwned = the old shares less the order's, currentValue = those
\* shares at the order's price, totalInvested = the old one less the order's
\* value, and unrealizedPnL = currentValue - totalInvested.
C23_PartialSellKeepsBooks ==
    [][LET key == <<lastResult'.user, lastResult'.kol>>
           order == lastResult'.order
           old == positions[key]
           new == positions'[key]
       IN (/\ lastResult'.op = "position"
           /\ order.type = "sell"
           /\ old.exists
           /\ old.sharesOwned - order.shares > 0)
          => /\ new.sharesOwned = old.sharesOwned - order.shares
             /\ new.currentValue = ValueOf(new.sharesOwned, order.pricePerShare)
             /\ new.totalInvested = old.totalInvested - order.totalValue
             /\ new.unrealizedPnL = new.currentValue - new.totalInvested]_vars

\* C24: a user who buys a candidate for P pills and, the fill applied and no
\* other call in between, sells all the shares received, receives at most P
\* pills.
C24_NoFreeRoundTrip ==
    [][(/\ lastResult.op = "buy"
        /\ lastResult.ok
        /\ lastResult'.op = "sell"
        /\ lastResult'.ok
        /\ lastResult'.user = lastResult.user
        /\ lastResult'.kol = lastResult.kol
        /\ lastResult'.amount = lastResult.received)
       => lastResult'.received <= lastResult.amount]_vars

\* C25: no buy is lost on the balance: when a buyShares call comes back from
\* its wait under a connected wallet, whatever other buyShares calls started
\* or finished during it, the pills balance goes down by the value of its
\* order from what it was, and does not go under 0.
C25_NoLostUpdate ==
    [][\A c \in calls \ calls' :
          (c.kind = "buy" /\ userAddress # "")
              => /\ pillsBalance' = pillsBalance - c.order.totalValue
                 /\ pillsBalance' >= 0]_vars

RECURSIVE SumOwned(_, _)
SumOwned(kol, users) ==
    IF users = {} THEN 0
    ELSE LET u == CHOOSE x \in users : TRUE
         IN positions[<<u, kol>>].sharesOwned + SumOwned(kol, users \ {u})

\* C26: every fill being applied to the candidate and to the trader's
\* position, the sharesOwned of all the users in a candidate add up to the
\* candidate's totalShares.
C26_LedgerMatchesMarket ==
    \A k \in KOLS : SumOwned(k, Users) = kolShares[k].totalShares

\* MaxFills orders have been filled and both users hold shares of a candidate
C26_Witness ==
    /\ fills = MaxFills
    /\ positions[<<"u1", "kolA">>].sharesOwned > 0
    /\ positions[<<"u2", "kolA">>].sharesOwned > 0
    /\ kolShares["kolA"].totalShares
           > positions[<<"u1", "kolA">>].sharesOwned

\* the pills paid by the buyers of the filled orders less the pills paid out
\* to their sellers
RECURSIVE NetFilledValue(_)
NetFilledValue(orders) ==
    IF orders = <<>> THEN 0
    ELSE (IF Head(orders).type = "buy" THEN Head(orders).totalValue
          ELSE -Head(orders).totalValue)
         + NetFilledValue(Tail(orders))

\* C27: after any sequence of applied fills, the sum of totalInvested over the
\* candidates (the prize pool) is the pills paid by buyers less the pills paid
\* out to sellers.
C27_PoolIsNetFunds ==
    TotalInvested(kolShares) = NetFilledValue(filledOrders)

\* a buy and then a sale that paid out pills have been filled
C27_Witness ==
    /\ Len(filledOrders) > 1
    /\ filledOrders[1].type = "buy"
    /\ \E i \in 2..Len(filledOrders) :
           /\ filledOrders[i].type = "sell"
           /\ filledOrders[i].totalValue > filledOrders[1].totalValue

\* the summary's mostPopular has the most totalInvested of its kolShares
MostPopularIsMostInvested ==
    marketSummary.loaded =>
        \A k \in DOMAIN marketSummary.kolShares :
            marketSummary.kolShares[k].totalInvested
                <= marketSummary.kolShares[marketSummary.mostPopular].totalInvested

\* the summary's currentFavorite has the highest of the probabilities of the
\* summary's kolShares
FavoriteIsMostProbable ==
    marketSummary.loaded =>
        \A k \in DOMAIN marketSummary.kolShares :
            FracLeq(marketSummary.kolShares[k].probability,
                    marketSummary.kolShares[marketSummary.currentFavorite].probability)

\* C28: in the summary generateMarketSummary returns, currentFavorite has the
\* highest probability among the summary's own recomputed kolShares and
\* mostPopular the highest totalInvested, also when a stored probability was
\* reset to 0 by updateKOLShareAfterTrade.
C28_FavoriteAndMostPopular ==
    FavoriteIsMostProbable /\ MostPopularIsMostInvested

----------------------------------------------------------------------------
(* Webhook transactions stored: processWebhookTransaction                  *)
(*                                                                         *)
(* SOL amounts are integers counting 1/SOL_SCALE SOL, and a transfer's     *)
(* lamports are cut to that.  One call's statements run in one PostgreSQL  *)
(* transaction and the calls are taken one after another, so a call is one *)
(* step.  pnl_usd, a fixed multiple of pnl_sol, and the timestamps are     *)
(* left out of the rows.                                                   *)

LAMPORTS_PER_SOL == 1000000000
SOL_SCALE == 1000

\* the account on the other side of a tracked wallet's trade
AMM == "amm"

TokenTransfer(mint, tokenAmount, from, to) ==
    [mint |-> mint, tokenAmount |-> tokenAmount, fromUserAccount |-> from,
     toUserAccount |-> to]

NativeTransfer(from, to, amount) ==
    [fromUserAccount |-> from, toUserAccount |-> to, amount |-> amount]

NoTransfer == NativeTransfer("", "", 0)

\* the transactions the webhook delivers, each any number of times: a buy, a
\* sell, a buy of two tokens in one transaction, and a buy by a wallet that
\* has no row in kols
Webhooks ==
    {[signature |-> "sig1", involvedKOLs |-> {"kolA"},
      tokenTransfers |-> <<TokenTransfer("mintA", 100, AMM, "kolA")>>,
      solTransfers |-> <<NativeTransfer("kolA", AMM, 200000000)>>],
     [signature |-> "sig2", involvedKOLs |-> {"kolA"},
      tokenTransfers |-> <<TokenTransfer("mintA", 40, "kolA", AMM)>>,
      solTransfers |-> <<NativeTransfer(AMM, "kolA", 100000000)>>],
     [signature |-> "sig3", involvedKOLs |-> {"kolB"},
      tokenTransfers |-> <<TokenTransfer("mintA", 50, AMM, "kolB"),
                           TokenTransfer("mintB", 70, AMM, "kolB")>>,
      solTransfers |-> <<NativeTransfer("kolB", AMM, 300000000)>>],
     [signature |-> "sig4", involvedKOLs |-> {UNKNOWN_KOL},
      tokenTransfers |-> <<TokenTransfer("mintB", 10, AMM, UNKNOWN_KOL)>>,
      solTransfers |-> <<NativeTransfer(UNKNOWN_KOL, AMM, 100000000)>>]}

\* solTransfers.find(...): the first SOL transfer out of the wallet for a buy,
\* into it for a sell
RECURSIVE correspondingSolTransfer(_, _, _)
correspondingSolTransfer(solTransfers, tradeType, kolAddress) ==
    IF solTransfers = <<>> THEN NoTransfer
    ELSE IF \/ tradeType = "buy" /\ Head(solTransfers).fromUserAccount = kolAddress
            \/ tradeType = "sell" /\ Head(solTransfers).toUserAccount = kolAddress
         THEN Head(solTransfers)
         ELSE correspondingSolTransfer(Tail(solTransfers), tradeType, kolAddress)

\* Math.abs(amount) / 1e9, in 1/SOL_SCALE SOL
LamportsToSol(amount) == Abs(amount) \div (LAMPORTS_PER_SOL \div SOL_SCALE)

\* upsertToken
upsertToken(db, tokenMint) == [db EXCEPT !.tokens = @ \cup {tokenMint}]

\* upsertTrade: throws when the wallet has no row in kols or the mint none in
\* tokens, else makes sure of the pair's row in trades and returns it
upsertTrade(db, kolAddress, tokenMint) ==
    IF kolAddress \notin db.kols \/ tokenMint \notin db.tokens
    THEN [ok |-> FALSE, id |-> <<"", "">>, db |-> db]
    ELSE [ok |-> TRUE, id |-> <<kolAddress, tokenMint>>,
          db |-> [db EXCEPT !.trades[<<kolAddress, tokenMint>>].exists = TRUE]]

\* insertTradeTransaction: INSERT ... ON CONFLICT (signature) DO NOTHING
insertTradeTransaction(db, tradeId, signature, transactionType, solAmount, tokenAmount) ==
    IF db.trade_transactions[signature].exists THEN db
    ELSE [db EXCEPT !.trade_transactions[signature] =
              [exists |-> TRUE, trade_id |-> tradeId,
               transaction_type |-> transactionType,
               sol_amount |-> IF transactionType = "sell" THEN -solAmount
                              ELSE solAmount,
               token_amount |-> tokenAmount,
               price_per_token |-> IF tokenAmount > 0
                                   THEN solAmount \div tokenAmount ELSE 0]]

\* updateTradeAggregation: the totals raised, then pnl_sol and is_open set
\* from the totals read back
updateTradeAggregation(db, tradeId, transactionType, solAmount, tokenAmount) ==
    IF ~db.trades[tradeId].exists THEN db
    ELSE LET raised ==
                 IF transactionType = "buy"
                 THEN [db.trades[tradeId] EXCEPT
                          !.total_buy_amount = @ + solAmount,
                          !.total_token_bought = @ + tokenAmount]
                 ELSE [db.trades[tradeId] EXCEPT
                          !.total_sell_amount = @ + solAmount,
                          !.total_token_sold = @ + tokenAmount]
             pnlSol == raised.total_sell_amount - raised.total_buy_amount
         IN [db EXCEPT !.trades[tradeId] =
                [raised EXCEPT
                    !.pnl_sol = pnlSol,
                    !.is_open = (raised.total_token_bought
                                     > raised.total_token_sold)]]

\* for (const tokenTransfer of tokenTransfers) { ... } from the i-th transfer
\* on: the tables after the loop, or ok FALSE when a statement threw
RECURSIVE ProcessTransfers(_, _, _)
ProcessTransfers(db, webhook, i) ==
    IF i > Len(webhook.tokenTransfers) THEN [ok |-> TRUE, db |-> db]
    ELSE LET tokenTransfer == webhook.tokenTransfers[i]
             isKOLReceiver == tokenTransfer.toUserAccount \in webhook.involvedKOLs
             isKOLSender == tokenTransfer.fromUserAccount \in webhook.involvedKOLs
             kolAddress == IF isKOLReceiver THEN tokenTransfer.toUserAccount
                           ELSE tokenTransfer.fromUserAccount
             tradeType == IF isKOLReceiver THEN "buy" ELSE "sell"
             found == correspondingSolTransfer(webhook.solTransfers, tradeType,
                                               kolAddress)
             solAmount == IF found = NoTransfer THEN 0
                          ELSE LamportsToSol(found.amount)
             trade == upsertTrade(upsertToken(db, tokenTransfer.mint),
                                  kolAddress, tokenTransfer.mint)
         IN IF ~isKOLReceiver /\ ~isKOLSender
            THEN ProcessTransfers(db, webhook, i + 1)
            ELSE IF ~trade.ok THEN [ok |-> FALSE, db |-> db]
            ELSE ProcessTransfers(
                     updateTradeAggregation(
                         insertTradeTransaction(trade.db, trade.id,
                             webhook.signature, tradeType, solAmount,
                             tokenTransfer.tokenAmount),
                         trade.id, tradeType, solAmount,
                         tokenTransfer.tokenAmount),
                     webhook, i + 1)

\* processWebhookTransaction: BEGIN, the webhook logged as processing, the
\* transfers stored, the log marked processed, COMMIT; when a statement or
\* the COMMIT throws, ROLLBACK and then the log row, if one was committed
\* before, marked failed
processWebhookTransaction(webhook, commits) ==
    LET logged == [database EXCEPT
                      !.webhook_logs[webhook.signature] = "processing"]
        stored == ProcessTransfers(logged, webhook, 1)
        done == stored.ok /\ commits
    IN /\ Len(deliveries) < MaxDeliveries
       /\ deliveries' = Append(deliveries,
                               [signature |-> webhook.signature, ok |-> done])
       /\ database' =
              IF done
              THEN [stored.db EXCEPT
                       !.webhook_logs[webhook.signature] = "processed"]
              ELSE [database EXCEPT
                       !.webhook_logs[webhook.signature] =
                           IF @ = "none" THEN @ ELSE "failed"]
       /\ UNCHANGED connection

NextWebhook ==
    \E webhook \in Webhooks, commits \in BOOLEAN :
        processWebhookTransaction(webhook, commits)
            /\ UNCHANGED <<engineVars, hookVars, clockVars>>

SpecWebhook == Init /\ [][NextWebhook]_vars

\* the transaction just handled was stored before
Redelivered ==
    /\ Len(deliveries') = Len(deliveries) + 1
    /\ \E i \in 1..Len(deliveries) :
           /\ deliveries[i].ok
           /\ deliveries[i].signature = deliveries'[Len(deliveries')].signature

\* C29: handling a transaction signature that was stored before leaves the
\* trades' aggregates (total_buy_amount, total_sell_amount, the token totals,
\* pnl) as they were, as it leaves trade_transactions.
C29_RedeliveryIdempotent ==
    [][Redelivered =>
          /\ database'.trades = database.trades
          /\ database'.trade_transactions = database.trade_transactions]_vars

\* the row of trade_transactions is written once per signature
RedeliveryKeepsTransactionRows ==
    [][Redelivered =>
          database'.trade_transactions = database.trade_transactions]_vars

----------------------------------------------------------------------------
(* A transaction on a pooled client: transaction(callback) of database.ts  *)
(*                                                                         *)
(* connection.pc is the promise the call is waiting on; a step is that     *)
(* promise settling and the code running on to the next await or the end.  *)

Awaited == {"connect", "BEGIN", "callback", "COMMIT", "ROLLBACK"}
Settlements == {"resolved", "rejected"}

\* client.query(statement), awaited
Issue(conn, statement) ==
    [conn EXCEPT !.statements = Append(@, statement), !.pc = statement]

\* the error of the await that rejected, on its way to the caller
Caught(conn) == [conn EXCEPT !.error = conn.pc]

\* client.release()
Release(conn) == [conn EXCEPT !.released = @ + 1]

\* the call's promise settles: result returned or error thrown
Finish(conn, outcome) ==
    [conn EXCEPT !.pc = "done", !.outcome = outcome,
                 !.settled = Append(@, outcome)]

\* transaction with client.release() after the ROLLBACK, not in a finally
transaction_ReleaseAfterRollback(conn, settles) ==
    CASE conn.pc = "connect" ->
             IF settles = "resolved" THEN Issue(conn, "BEGIN")
             ELSE Finish(Caught(conn), "thrown")
      [] conn.pc = "BEGIN" ->
             IF settles = "resolved" THEN [conn EXCEPT !.pc = "callback"]
             ELSE Issue(Caught(conn), "ROLLBACK")
      [] conn.pc = "callback" ->
             IF settles = "resolved" THEN Issue(conn, "COMMIT")
             ELSE Issue(Caught(conn), "ROLLBACK")
      [] conn.pc = "COMMIT" ->
             IF settles = "resolved"
             THEN Finish(Release([conn EXCEPT !.committed = TRUE]), "returned")
             ELSE Issue(Caught(conn), "ROLLBACK")
      [] conn.pc = "ROLLBACK" ->
             IF settles = "resolved" THEN Finish(Release(conn), "thrown")
             ELSE Finish(Caught(conn), "thrown")

\* transaction: getClient() is awaited outside the try; BEGIN, the callback
\* and COMMIT inside it; the catch awaits ROLLBACK and rethrows; the finally
\* releases the client
transaction(conn, settles) ==
    CASE conn.pc = "connect" ->
             IF settles = "resolved" THEN Issue(conn, "BEGIN")
             ELSE Finish(Caught(conn), "thrown")
      [] conn.pc = "BEGIN" ->
             IF settles = "resolved" THEN [conn EXCEPT !.pc = "callback"]
             ELSE Issue(Caught(conn), "ROLLBACK")
      [] conn.pc = "callback" ->
             IF settles = "resolved" THEN Issue(conn, "COMMIT")
             ELSE Issue(Caught(conn), "ROLLBACK")
      [] conn.pc = "COMMIT" ->
             IF settles = "resolved"
             THEN Finish(Release([conn EXCEPT !.committed = TRUE]), "returned")
             ELSE Issue(Caught(conn), "ROLLBACK")
      [] conn.pc = "ROLLBACK" ->
             IF settles = "resolved" THEN Finish(Release(conn), "thrown")
             ELSE Finish(Release(Caught(conn)), "thrown")

\* transaction(callback) is called: getClient() awaited
StartTransaction ==
    /\ connection.pc \in {"idle", "done"}
    /\ Len(connection.settled) < MaxTransactions
    /\ connection' = [NoConnection EXCEPT !.pc = "connect",
                                          !.settled = connection.settled]
    /\ UNCHANGED <<database, deliveries>>

\* the awaited promise settles
Settle(settles) ==
    /\ connection.pc \in Awaited
    /\ connection' = transaction(connection, settles)
    /\ UNCHANGED <<database, deliveries>>

\* an awaited promise does settle: the pool and the server answer or fail
Settling ==
    \E settles \in Settlements :
        Settle(settles) /\ UNCHANGED <<engineVars, hookVars, clockVars>>

NextTransaction ==
    \/ StartTransaction /\ UNCHANGED <<engineVars, hookVars, clockVars>>
    \/ Settling

SpecTransaction ==
    Init /\ [][NextTransaction]_vars /\ WF_vars(Settling)

\* how many times a statement was issued in the call
RECURSIVE Issued(_, _)
Issued(statements, statement) ==
    IF statements = <<>> THEN 0
    ELSE (IF Head(statements) = statement THEN 1 ELSE 0)
         + Issued(Tail(statements), statement)

\* the call has settled after issuing BEGIN
SettledAfterBegin ==
    connection.pc = "done" /\ Issued(connection.statements, "BEGIN") > 0

\* C30: in every call of transaction(callback), BEGIN is followed by exactly
\* one of a COMMIT that succeeds (callback succeeded) or a ROLLBACK (callback,
\* BEGIN or COMMIT threw), never both and never neither, and the pooled
\* client is released exactly once on every path, also when ROLLBACK throws.
C30_CommitOrRollbackAndRelease ==
    /\ [](/\ connection.released <= 1
          /\ Issued(connection.statements, "BEGIN") <= 1
          /\ Issued(connection.statements, "COMMIT") <= 1
          /\ Issued(connection.statements, "ROLLBACK") <= 1)
    /\ [](SettledAfterBegin =>
             /\ connection.committed
                    # (Issued(connection.statements, "ROLLBACK") = 1)
             /\ connection.committed => connection.outcome = "returned"
             /\ connection.released = 1)
    /\ [](connection.pc = "BEGIN" => <>SettledAfterBegin)

\* a call whose COMMIT threw and whose ROLLBACK threw too has settled, its
\* client released
C30_Witness ==
    /\ connection.pc = "done"
    /\ connection.statements = <<"BEGIN", "COMMIT", "ROLLBACK">>
    /\ connection.error = "ROLLBACK"
    /\ connection.released = 1
    /\ Len(connection.settled) > 1

====
